---- MODULE Spec2Model ----
(***************************************************************************)
(* Model of dcs_wrapper.py: the generator iter_sentences() and the         *)
(* module-level loop that writes sent_roots.txt.                           *)
(*                                                                         *)
(* A Python string is a sequence of one-character strings.  A character    *)
(* outside ASCII is written by its code point: "U+0101" is a-macron,       *)
(* "U+1E25" is h-underdot, "U+015B" is s-acute, "U+012B" is i-macron.      *)
(* A dict is a function whose DOMAIN is the set of its keys.               *)
(***************************************************************************)
EXTENDS Integers, Sequences, FiniteSets, TLC

VARIABLES
    input,       \* dcs_sentences.json as found on disk: [kind, docs]
    sent_roots,  \* sent_roots.txt on disk: [exists, content]
    handle,      \* the stream `out`: "unopened", "open" or "closed"
    opens,       \* number of codecs.open calls made on sent_roots.txt
    out,         \* what has been written to `out`, one chunk per out.write
    pc,          \* source line about to run, or "done" / "aborted"
    doc_list,    \* iter_sentences' doc_list (<<>> until loaded)
    idx,         \* how many elements `for doc in doc_list` has taken
    s,           \* the module-level name s: [bound, val, from]
    gi,          \* position of `for decomp in ...` inside the current doc
    ti,          \* position of `for group in decomp` inside the current decomp
    err          \* the exception that ended the run: [type, line]

vars == <<input, sent_roots, handle, opens, out, pc, doc_list, idx, s, gi, ti, err>>

\* Longest input document list explored.
MaxDocs == 3

----------------------------------------------------------------------------
(* Strings and values of the input *)

Digit == <<"0", "1", "2", "3", "4", "5", "6", "7", "8", "9">>

RECURSIVE str(_)
\* str(n) of a non-negative int: its decimal digits.
str(n) == IF n < 10 THEN <<Digit[n + 1]>>
          ELSE str(n \div 10) \o <<Digit[(n % 10) + 1]>>

SentencePrefix == <<"s", "e", "n", "t", "e", "n", "c", "e", "_">>

\* The mutant compares the eight letters only, without the underscore.
startswithLetters(string, prefix) ==
    /\ Len(string) >= Len(prefix) - 1
    /\ SubSeq(string, 1, Len(prefix) - 1) = SubSeq(prefix, 1, Len(prefix) - 1)

\* string.startswith(prefix)
startswith(string, prefix) ==
    /\ Len(string) >= Len(prefix)
    /\ SubSeq(string, 1, Len(prefix)) = prefix

\* The IAST -> SLP1 clusters of sanscript's scheme tables that differ between
\* the two schemes; every other character is the same in both and is passed through.
IAST_SLP1 ==
       (<<"U+0101">> :> <<"A">>) @@ (<<"U+012B">> :> <<"I">>)
    @@ (<<"U+016B">> :> <<"U">>) @@ (<<"U+1E5B">> :> <<"f">>)
    @@ (<<"a", "i">> :> <<"E">>) @@ (<<"a", "u">> :> <<"O">>)
    @@ (<<"U+1E43">> :> <<"M">>) @@ (<<"U+1E25">> :> <<"H">>)
    @@ (<<"k", "h">> :> <<"K">>) @@ (<<"g", "h">> :> <<"G">>)
    @@ (<<"c", "h">> :> <<"C">>) @@ (<<"j", "h">> :> <<"J">>)
    @@ (<<"t", "h">> :> <<"T">>) @@ (<<"d", "h">> :> <<"D">>)
    @@ (<<"p", "h">> :> <<"P">>) @@ (<<"b", "h">> :> <<"B">>)
    @@ (<<"U+1E45">> :> <<"N">>) @@ (<<"U+00F1">> :> <<"Y">>)
    @@ (<<"U+1E6D">> :> <<"w">>) @@ (<<"U+1E0D">> :> <<"q">>)
    @@ (<<"U+1E47">> :> <<"R">>) @@ (<<"U+015B">> :> <<"S">>)
    @@ (<<"U+1E63">> :> <<"z">>)

RECURSIVE transliterate(_)
\* sanscript.transliterate(data, IAST, SLP1): at each position the longest
\* cluster of the table is replaced, anything else is copied.
transliterate(data) ==
    IF data = <<>> THEN <<>>
    ELSE IF Len(data) >= 2 /\ SubSeq(data, 1, 2) \in DOMAIN IAST_SLP1
         THEN IAST_SLP1[SubSeq(data, 1, 2)]
                  \o transliterate(SubSeq(data, 3, Len(data)))
    ELSE IF <<data[1]>> \in DOMAIN IAST_SLP1
         THEN IAST_SLP1[<<data[1]>>] \o transliterate(Tail(data))
    ELSE <<data[1]>> \o transliterate(Tail(data))

----------------------------------------------------------------------------
(* Input documents *)

Decomposition == "dcsAnalysisDecomposition"

Gam  == <<"g", "a", "m">>
Khad == <<"k", "h", "U+0101", "d">>
Shi  == <<"U+015B", "U+012B">>

\* "rāmaḥ gacchati"
TextRama == <<"r", "U+0101", "m", "a", "U+1E25", " ",
              "g", "a", "c", "c", "h", "a", "t", "i">>
\* a text holding a line break, as the JSON string "a\nb" does
TextTwoLines == <<"a", "\n", "b">>

Root(r) == ("root" :> r) @@ ("form" :> <<"f">>)
NoRoot  == ("form" :> <<"f">>)

Id(n) == SentencePrefix \o str(n)

\* {"_id":"sentence_1","dcsId":1,"text":"rāmaḥ gacchati",
\*  "dcsAnalysisDecomposition":[[{"root":"gam"}]]}
DocGam ==
    ("_id" :> Id(1)) @@ ("dcsId" :> 1) @@ ("text" :> TextRama)
    @@ (Decomposition :> << <<Root(Gam)>> >>)

\* two groups with roots, a token without root, an empty group
DocNested ==
    ("_id" :> Id(2)) @@ ("dcsId" :> 12) @@ ("text" :> TextTwoLines)
    @@ (Decomposition :> << <<NoRoot, Root(Khad)>>, <<>>, <<Root(Shi), Root(Gam)>> >>)

\* a decomposition field that is an empty list
DocEmptyDecomp ==
    ("_id" :> Id(3)) @@ ("dcsId" :> 40) @@ ("text" :> <<"t">>)
    @@ (Decomposition :> <<>>)

\* a sentence without the decomposition field
DocNoDecomp == ("_id" :> Id(4)) @@ ("dcsId" :> 5) @@ ("text" :> <<"u">>)

DocNoDcsId ==
    ("_id" :> Id(5)) @@ ("text" :> <<"v">>) @@ (Decomposition :> << <<Root(Gam)>> >>)

DocNoText ==
    ("_id" :> Id(6)) @@ ("dcsId" :> 7) @@ (Decomposition :> << <<Root(Gam)>> >>)

\* Documents that are not sentences carry values no sentence carries:
\* the digit 3 and the character %.
OtherFields ==
    ("dcsId" :> 3) @@ ("text" :> <<"%">>) @@ (Decomposition :> << <<Root(<<"%">>)>> >>)

DocMeta == ("_id" :> <<"m", "e", "t", "a", "_", "1">>) @@ OtherFields

\* "sentence1": the prefix without its underscore
DocNear == ("_id" :> <<"s", "e", "n", "t", "e", "n", "c", "e", "1">>) @@ OtherFields

DocNoId == OtherFields

Docs == {DocGam, DocNested, DocEmptyDecomp, DocNoDecomp, DocNoDcsId, DocNoText,
         DocMeta, DocNear, DocNoId}

DocLists == UNION {[1..n -> Docs] : n \in 0..MaxDocs}

\* What dcs_sentences.json can be: absent, not JSON, JSON without "docs",
\* or {"docs": [...]}.
Inputs ==
    {[kind |-> k, docs |-> <<>>] : k \in {"missing", "malformed", "nodocs"}}
    \cup {[kind |-> "ok", docs |-> l] : l \in DocLists}

\* sent_roots.txt before the run: absent, or left over from an earlier run.
OldContent == <<"o", "l", "d", "\n">>
Absent == [exists |-> FALSE, content |-> <<>>]

Unbound == [bound |-> FALSE, val |-> <<>>, from |-> 0]
NoError == [type |-> "none", line |-> 0]

Init ==
    /\ input \in Inputs
    /\ sent_roots \in {Absent, [exists |-> TRUE, content |-> OldContent]}
    /\ handle = "unopened"
    /\ opens = 0
    /\ out = <<>>
    /\ pc = "L33"
    /\ doc_list = <<>>
    /\ idx = 0
    /\ s = Unbound
    /\ gi = 0
    /\ ti = 0
    /\ err = NoError

----------------------------------------------------------------------------
(* The output stream *)

RECURSIVE Flat(_)
\* The characters of a sequence of chunks, in the order written.
Flat(chunks) ==
    IF chunks = <<>> THEN <<>> ELSE Head(chunks).data \o Flat(Tail(chunks))

\* Mode "ab" instead of "wb": the old content survives the open.
OpenAppend(content) == content

\* codecs.open(..., "wb", ...) creates the file or truncates it.
OpenTruncate(content) == <<>>

\* Leaving the `with` block closes `out`; what was written is then on disk.
Close ==
    /\ handle' = "closed"
    /\ sent_roots' = [exists |-> TRUE, content |-> sent_roots.content \o Flat(out)]

\* The mutant has no `with`: an exception leaves the stream open and
\* its buffer unwritten.
AbortNoClose(type, line) ==
    /\ err' = [type |-> type, line |-> line]
    /\ pc' = "aborted"
    /\ UNCHANGED <<handle, sent_roots>>

\* The mutant catches the exception and goes on with the next document.
AbortSwallow(type, line) ==
    /\ err' = [type |-> type, line |-> line]
    /\ pc' = "L23"
    /\ UNCHANGED <<handle, sent_roots>>

\* An exception nobody catches: it leaves the `with` block, which closes
\* `out`, and ends the program.
Abort(type, line) ==
    /\ err' = [type |-> type, line |-> line]
    /\ pc' = "aborted"
    /\ Close

\* out.write(data), while document number idx is the loop's doc;
\* `from` is the document the data was taken from.
Write(data, from, line) ==
    out' = Append(out, [doc |-> idx, from |-> from, line |-> line, data |-> data])

----------------------------------------------------------------------------
(* Line 33 and iter_sentences *)

\* with codecs.open('sent_roots.txt', "wb", "utf8") as out:
OpenOut ==
    /\ pc = "L33"
    /\ handle' = "open"
    /\ opens' = opens + 1
    /\ sent_roots' = [exists |-> TRUE, content |-> OpenTruncate(sent_roots.content)]
    /\ pc' = "L16"
    /\ UNCHANGED <<input, out, doc_list, idx, s, gi, ti, err>>

\* The exception lines 18-19 raise for an input that cannot be loaded.
LoadError(kind) ==
    CASE kind = "missing"   -> "IOError"
      [] kind = "malformed" -> "ValueError"
      [] kind = "nodocs"    -> "KeyError"

\* First next() of the generator, lines 16-22, the load succeeding.
LoadOk ==
    /\ pc = "L16"
    /\ input.kind = "ok"
    /\ doc_list' = input.docs
    /\ pc' = "L23"
    /\ UNCHANGED <<input, sent_roots, handle, opens, out, idx, s, gi, ti, err>>

\* First next() of the generator, the load failing.
LoadFail ==
    /\ pc = "L16"
    /\ input.kind # "ok"
    /\ Abort(LoadError(input.kind), IF input.kind = "missing" THEN 18 ELSE 19)
    /\ UNCHANGED <<input, opens, out, doc_list, idx, s, gi, ti>>

\* Lines 23-24 on a document without "_id": doc["_id"] raises KeyError.
FilterNoId ==
    /\ pc = "L23"
    /\ idx < Len(doc_list)
    /\ "_id" \notin DOMAIN doc_list[idx + 1]
    /\ idx' = idx + 1
    /\ Abort("KeyError", 24)
    /\ UNCHANGED <<input, opens, out, doc_list, s, gi, ti>>

\* Lines 23-24, the prefix test failing: the loop goes to the next document.
FilterSkip ==
    /\ pc = "L23"
    /\ idx < Len(doc_list)
    /\ "_id" \in DOMAIN doc_list[idx + 1]
    /\ ~startswith(doc_list[idx + 1]["_id"], SentencePrefix)
    /\ idx' = idx + 1
    /\ UNCHANGED <<input, sent_roots, handle, opens, out, pc, doc_list, s, gi, ti, err>>

\* Lines 23-25, the prefix test succeeding: yield doc, the loop body runs.
FilterYield ==
    /\ pc = "L23"
    /\ idx < Len(doc_list)
    /\ "_id" \in DOMAIN doc_list[idx + 1]
    /\ startswith(doc_list[idx + 1]["_id"], SentencePrefix)
    /\ idx' = idx + 1
    /\ pc' = "L35"
    /\ UNCHANGED <<input, sent_roots, handle, opens, out, doc_list, s, gi, ti, err>>

\* Line 23 with doc_list exhausted: the generator returns, the for loop of
\* line 34 ends and the `with` block of line 33 is left.
Exhausted ==
    /\ pc = "L23"
    /\ idx = Len(doc_list)
    /\ pc' = "done"
    /\ Close
    /\ UNCHANGED <<input, opens, out, doc_list, idx, s, gi, ti, err>>

----------------------------------------------------------------------------
(* The loop body, lines 35-44 *)

\* The document the generator yielded last.
doc == doc_list[idx]

\* The mutant has lines 43-44 indented into the `if` of line 35.
BranchIndented(d) == IF Decomposition \in DOMAIN d THEN "L36" ELSE "L23"

\* if "dcsAnalysisDecomposition" in doc: lines 36-42 run, then line 43;
\* otherwise line 43 runs at once.
Branch(d) == IF Decomposition \in DOMAIN d THEN "L36" ELSE "L43"

If ==
    /\ pc = "L35"
    /\ pc' = Branch(doc)
    /\ UNCHANGED <<input, sent_roots, handle, opens, out, doc_list, idx, s, gi, ti, err>>

\* out.write(str(doc["dcsId"]) + ", ")
WriteDcsId ==
    /\ pc = "L36"
    /\ "dcsId" \in DOMAIN doc
    /\ Write(str(doc["dcsId"]) \o <<",", " ">>, idx, 36)
    /\ pc' = "L37"
    /\ UNCHANGED <<input, sent_roots, handle, opens, doc_list, idx, s, gi, ti, err>>

\* doc["dcsId"] raises KeyError before anything is written.
NoDcsId ==
    /\ pc = "L36"
    /\ "dcsId" \notin DOMAIN doc
    /\ Abort("KeyError", 36)
    /\ UNCHANGED <<input, opens, out, doc_list, idx, s, gi, ti>>

\* out.write(doc["text"] + ", ")
WriteText ==
    /\ pc = "L37"
    /\ "text" \in DOMAIN doc
    /\ Write(doc["text"] \o <<",", " ">>, idx, 37)
    /\ pc' = "L38"
    /\ UNCHANGED <<input, sent_roots, handle, opens, doc_list, idx, s, gi, ti, err>>

\* doc["text"] raises KeyError, the dcsId being written already.
NoText ==
    /\ pc = "L37"
    /\ "text" \notin DOMAIN doc
    /\ Abort("KeyError", 37)
    /\ UNCHANGED <<input, opens, out, doc_list, idx, s, gi, ti>>

\* s = ""
ResetS ==
    /\ pc = "L38"
    /\ s' = [bound |-> TRUE, val |-> <<>>, from |-> idx]
    /\ gi' = 0
    /\ pc' = "L39"
    /\ UNCHANGED <<input, sent_roots, handle, opens, out, doc_list, idx, ti, err>>

\* for decomp in doc["dcsAnalysisDecomposition"]: the next decomp
ForDecomp ==
    /\ pc = "L39"
    /\ gi < Len(doc[Decomposition])
    /\ gi' = gi + 1
    /\ ti' = 0
    /\ pc' = "L40"
    /\ UNCHANGED <<input, sent_roots, handle, opens, out, doc_list, idx, s, err>>

\* line 39 with the decompositions exhausted
EndForDecomp ==
    /\ pc = "L39"
    /\ gi = Len(doc[Decomposition])
    /\ pc' = "L43"
    /\ UNCHANGED <<input, sent_roots, handle, opens, out, doc_list, idx, s, gi, ti, err>>

\* The mutant puts the new root in front of the string.
AddRootInFront(string, group) ==
    IF "root" \in DOMAIN group THEN <<" ">> \o group["root"] \o string ELSE string

\* The mutant joins the roots without the space.
AddRootNoSpace(string, group) ==
    IF "root" \in DOMAIN group THEN string \o group["root"] ELSE string

\* if "root" in group: s += " " + group["root"]
AddRoot(string, group) ==
    IF "root" \in DOMAIN group THEN string \o <<" ">> \o group["root"] ELSE string

\* for group in decomp: the next group, lines 40-42
ForGroup ==
    /\ pc = "L40"
    /\ ti < Len(doc[Decomposition][gi])
    /\ ti' = ti + 1
    /\ s' = [s EXCEPT !.val = AddRoot(s.val, doc[Decomposition][gi][ti + 1])]
    /\ UNCHANGED <<input, sent_roots, handle, opens, out, pc, doc_list, idx, gi, err>>

\* line 40 with the groups of this decomp exhausted
EndForGroup ==
    /\ pc = "L40"
    /\ ti = Len(doc[Decomposition][gi])
    /\ pc' = "L39"
    /\ UNCHANGED <<input, sent_roots, handle, opens, out, doc_list, idx, s, gi, ti, err>>

\* The mutant ends the line twice.
LineTwice(s_trans) == s_trans \o <<"\n", "\n">>

\* The mutant forgets the line end.
LineOpen(s_trans) == s_trans

\* s_trans + "\n"
Line(s_trans) == s_trans \o <<"\n">>

\* s_trans = sanscript.transliterate(s, sanscript.IAST, sanscript.SLP1)
\* out.write(s_trans + "\n"), then the generator is resumed.
WriteRoots ==
    /\ pc = "L43"
    /\ s.bound
    /\ Write(Line(transliterate(s.val)), s.from, 44)
    /\ gi' = 0
    /\ ti' = 0
    /\ pc' = "L23"
    /\ UNCHANGED <<input, sent_roots, handle, opens, doc_list, idx, s, err>>

\* Line 43 when no assignment to s has run yet: NameError.
NoS ==
    /\ pc = "L43"
    /\ ~s.bound
    /\ Abort("NameError", 43)
    /\ UNCHANGED <<input, opens, out, doc_list, idx, s, gi, ti>>

Next ==
    \/ OpenOut
    \/ LoadOk
    \/ LoadFail
    \/ FilterNoId
    \/ FilterSkip
    \/ FilterYield
    \/ Exhausted
    \/ If
    \/ WriteDcsId
    \/ NoDcsId
    \/ WriteText
    \/ NoText
    \/ ResetS
    \/ ForDecomp
    \/ EndForDecomp
    \/ ForGroup
    \/ EndForGroup
    \/ WriteRoots
    \/ NoS

Spec == Init /\ [][Next]_vars

----------------------------------------------------------------------------
(* Vocabulary of the properties, stated without the operators of the model *)

\* The identifier begins with the nine characters s e n t e n c e _
IsSentence(d) ==
    /\ "_id" \in DOMAIN d
    /\ Len(d["_id"]) >= 9
    /\ \A k \in 1..9 : d["_id"][k] = SentencePrefix[k]

HasDecomp(d) == Decomposition \in DOMAIN d

\* Document number i has been dealt with: skipped, or its loop body has ended.
Completed(i) == i < idx \/ (i = idx /\ pc \in {"L23", "done"})

ChunksOf(i) == SelectSeq(out, LAMBDA c : c.doc = i)
LineOf(i) == Flat(ChunksOf(i))

RECURSIVE Concat(_)
Concat(seqs) == IF seqs = <<>> THEN <<>> ELSE Head(seqs) \o Concat(Tail(seqs))

\* The root values of a decomposition, outer order then inner order.
RootsOf(decomposition) ==
    LET tokens == Concat(decomposition)
        bearing == SelectSeq(tokens, LAMBDA g : "root" \in DOMAIN g)
    IN  [k \in 1..Len(bearing) |-> bearing[k]["root"]]

\* Each string of the sequence behind one space.
SpacePrefixed(strings) == Concat([k \in 1..Len(strings) |-> <<" ">> \o strings[k]])

\* The strings of the sequence with one space between neighbours.
SpaceJoined(strings) ==
    Concat([k \in 1..Len(strings) |->
               IF k = 1 THEN strings[k] ELSE <<" ">> \o strings[k]])

Transliterated(strings) == [k \in 1..Len(strings) |-> transliterate(strings[k])]

CountNL(string) == Cardinality({k \in 1..Len(string) : string[k] = "\n"})

EndsLine(c) == Len(c.data) > 0 /\ c.data[Len(c.data)] = "\n"

\* The chunks that end a line, and the documents they were written for.
Records == SelectSeq(out, EndsLine)
RecordDocs == [k \in 1..Len(Records) |-> Records[k].doc]

SentenceIndexes(docs) ==
    SelectSeq([k \in 1..Len(docs) |-> k], LAMBDA k : IsSentence(docs[k]))

\* A text or a root of the document holds a line break.
HoldsNL(d) ==
    \/ "text" \in DOMAIN d /\ CountNL(d["text"]) > 0
    \/ HasDecomp(d) /\ CountNL(Concat(RootsOf(d[Decomposition]))) > 0

NoEmbeddedNL == \A i \in 1..Len(input.docs) : ~HoldsNL(input.docs[i])

\* The last sentence document before number i that has a decomposition, or 0.
PrevDecomp(i) ==
    LET js == {j \in 1..(i - 1) : IsSentence(doc_list[j]) /\ HasDecomp(doc_list[j])}
    IN  IF js = {} THEN 0 ELSE CHOOSE j \in js : \A j2 \in js : j2 <= j

----------------------------------------------------------------------------
(* The properties *)

\* C1: a document whose _id does not start with "sentence_" contributes
\* nothing to the output: every write is made for a sentence document, from
\* the data of a sentence document, and the characters that only the other
\* documents carry (the digit 3, the character %) never appear.
C1_NonSentencesSilent ==
    \A k \in 1..Len(out) :
        /\ out[k].doc \in 1..idx
        /\ IsSentence(doc_list[out[k].doc])
        /\ out[k].from \in 1..idx
        /\ IsSentence(doc_list[out[k].from])
        /\ \A j \in 1..Len(out[k].data) : out[k].data[j] \notin {"%", "3"}

C1_Witness ==
    /\ pc = "done"
    /\ Len(doc_list) = 3
    /\ doc_list[1] = DocMeta
    /\ doc_list[2] = DocGam
    /\ doc_list[3] = DocNear
    /\ Len(out) = 3

\* C2 as stated: the line of a sentence document with a decomposition is
\* str(dcsId), ", ", text, ", ", the transliterated roots joined by single
\* spaces, and a line end.
C2_RootsJoinedBySingleSpaces ==
    \A i \in 1..idx :
        (IsSentence(doc_list[i]) /\ HasDecomp(doc_list[i]) /\ Completed(i)) =>
            LineOf(i) = str(doc_list[i]["dcsId"]) \o <<",", " ">>
                        \o doc_list[i]["text"] \o <<",", " ">>
                        \o SpaceJoined(Transliterated(RootsOf(doc_list[i][Decomposition])))
                        \o <<"\n">>

\* C2 amended: the line is str(dcsId), ", ", text, ", ", then every
\* transliterated root behind a space of its own, and a line end; the
\* document of scenario 1 gives "1, rāmaḥ gacchati,  gam\n", two spaces
\* after the second comma.
C2_EveryRootBehindASpace ==
    \A i \in 1..idx :
        (IsSentence(doc_list[i]) /\ HasDecomp(doc_list[i]) /\ Completed(i)) =>
            /\ LineOf(i) = str(doc_list[i]["dcsId"]) \o <<",", " ">>
                           \o doc_list[i]["text"] \o <<",", " ">>
                           \o SpacePrefixed(Transliterated(RootsOf(doc_list[i][Decomposition])))
                           \o <<"\n">>
            /\ doc_list[i] = DocGam =>
                   LineOf(i) = <<"1", ",", " ">> \o TextRama
                               \o <<",", " ", " ", "g", "a", "m", "\n">>
            /\ doc_list[i] = DocNested =>
                   LineOf(i) = <<"1", "2", ",", " ", "a", "\n", "b", ",", " ",
                                 " ", "K", "A", "d", " ", "S", "I", " ", "g", "a", "m", "\n">>

C2_Witness ==
    /\ pc = "done"
    /\ Len(doc_list) = 2
    /\ doc_list[1] = DocGam
    /\ doc_list[2] = DocNested

\* C3: when the loops of lines 39-42 have run for a document, s is that
\* document's N root values, each behind a single space, in outer then inner
\* order; tokens without root add nothing, and nothing of an earlier document
\* is left in s.
C3_RootStringExact ==
    (pc = "L43" /\ HasDecomp(doc)) =>
        /\ s.bound
        /\ s.from = idx
        /\ s.val = SpacePrefixed(RootsOf(doc[Decomposition]))
        /\ CountNL(s.val) = 0 =>
               Cardinality({k \in 1..Len(s.val) : s.val[k] = " "})
                   = Len(RootsOf(doc[Decomposition]))

C3_Witness ==
    /\ pc = "L43"
    /\ idx = 2
    /\ doc_list[1] = DocGam
    /\ doc = DocNested
    /\ s.val = <<" ">> \o Khad \o <<" ">> \o Shi \o <<" ">> \o Gam

\* C4 as stated: every sentence document without a decomposition field gets
\* an output line, whose root part is empty or the root string of an earlier
\* document, also when it is the first sentence document.
C4_LineForEverySentence ==
    \A i \in 1..idx :
        (/\ IsSentence(doc_list[i])
         /\ ~HasDecomp(doc_list[i])
         /\ (Completed(i) \/ (i = idx /\ pc = "aborted"))) =>
            \E k \in 1..Len(out) :
                /\ out[k].doc = i
                /\ \/ out[k].data = <<"\n">>
                   \/ \E j \in 1..(i - 1) :
                          /\ HasDecomp(doc_list[j])
                          /\ out[k].data =
                                 transliterate(SpacePrefixed(RootsOf(doc_list[j][Decomposition])))
                                 \o <<"\n">>

\* C5: once an exception has been raised the run is over: the stream is
\* closed with everything written so far on disk, every earlier sentence
\* document has its complete line, nothing is written for a later document,
\* and no later step writes or changes the file.
C5_AbortIsFinal ==
    /\ [](err # NoError =>
            /\ pc = "aborted"
            /\ handle = "closed"
            /\ sent_roots = [exists |-> TRUE, content |-> Flat(out)]
            /\ \A k \in 1..Len(out) : out[k].doc <= idx
            /\ \A i \in 1..(idx - 1) :
                   IsSentence(doc_list[i]) =>
                       \E k \in 1..Len(out) : out[k].doc = i /\ EndsLine(out[k]))
    /\ [][err # NoError => (out' = out /\ sent_roots' = sent_roots /\ err' = err)]_vars

C5_Witness ==
    /\ pc = "aborted"
    /\ err = [type |-> "KeyError", line |-> 37]
    /\ doc_list = <<DocGam, DocNoText, DocGam>>
    /\ Flat(out) = <<"1", ",", " ">> \o TextRama
                   \o <<",", " ", " ", "g", "a", "m", "\n", "7", ",", " ">>
    /\ sent_roots.content = Flat(out)

\* C6: sent_roots.txt is opened exactly once, the stream is closed in every
\* terminal state, normal or not, it stays closed, and nothing is written
\* to it unless it is open.
C6_OpenedOnceClosedAtEnd ==
    /\ [](/\ opens <= 1
          /\ pc \in {"done", "aborted"} => (opens = 1 /\ handle = "closed")
          /\ err # NoError => handle = "closed"
          /\ handle = "unopened" => out = <<>>)
    /\ [][handle # "open" => out' = out]_vars
    /\ [][handle = "closed" => handle' = "closed"]_vars

C6_Witness ==
    /\ pc = "aborted"
    /\ err = [type |-> "KeyError", line |-> 24]
    /\ handle = "closed"
    /\ opens = 1
    /\ Len(out) = 6

C9_StaleRootsRepeated ==
    \A i \in 1..idx :
        (/\ IsSentence(doc_list[i])
         /\ ~HasDecomp(doc_list[i])
         /\ PrevDecomp(i) # 0
         /\ Completed(i)) =>
            /\ Len(ChunksOf(i)) = 1
            /\ LineOf(i) =
                   transliterate(
                       SpacePrefixed(RootsOf(doc_list[PrevDecomp(i)][Decomposition])))
                   \o <<"\n">>
            /\ doc_list[PrevDecomp(i)] = DocNested =>
                   LineOf(i) = <<" ", "K", "A", "d", " ", "S", "I", " ",
                                 "g", "a", "m", "\n">>
            /\ doc_list[PrevDecomp(i)] = DocEmptyDecomp => LineOf(i) = <<"\n">>

C9_Witness ==
    /\ pc = "done"
    /\ doc_list = <<DocNested, DocNoDecomp, DocNoDecomp>>
    /\ LineOf(2) = LineOf(3)
    /\ Len(LineOf(3)) = 12

\* C10: sent_roots.txt is created or truncated before dcs_sentences.json is
\* read, nothing is written before the load has succeeded, and a failed load
\* ends the run with sent_roots.txt existing and empty.
C10_OpenThenLoadThenWrite ==
    /\ pc = "L33" => (doc_list = <<>> /\ err = NoError /\ out = <<>>)
    /\ pc = "L16" =>
           (/\ handle = "open"
            /\ opens = 1
            /\ sent_roots = [exists |-> TRUE, content |-> <<>>]
            /\ doc_list = <<>>
            /\ out = <<>>)
    /\ out # <<>> => (input.kind = "ok" /\ doc_list = input.docs)
    /\ input.kind # "ok" /\ pc \notin {"L33", "L16"} =>
           (/\ pc = "aborted"
            /\ err.type = LoadError(input.kind)
            /\ err.line \in {18, 19}
            /\ out = <<>>
            /\ handle = "closed"
            /\ sent_roots = [exists |-> TRUE, content |-> <<>>])

C10_Witness ==
    /\ pc = "aborted"
    /\ input.kind = "malformed"
    /\ err = [type |-> "ValueError", line |-> 19]
    /\ sent_roots = [exists |-> TRUE, content |-> <<>>]

====
